---- MODULE Spec2Model ----
(***************************************************************************)
(* Model of mux/src/ssh.rs: the bootstrap bridge of RemoteSshDomain.       *)
(*                                                                         *)
(* Three execution contexts are modelled:                                  *)
(*   - the caller's main thread (spawn, split_pane and the operations on   *)
(*     the PtyWriter, WrappedSshPty and WrappedSshChild wrappers),         *)
(*   - the caller's reader thread (PtyReader::read),                       *)
(*   - the background worker launched by the first spawn, which runs       *)
(*     connect_ssh_session and then the tail of the thread closure.        *)
(* The Session, the line editor, the real PTY/child and the socket pairs   *)
(* are collaborators: their outcomes are inputs drawn with \E.             *)
(***************************************************************************)
EXTENDS Integers, Sequences, FiniteSets, TLC

\* ------------------------------------------------------------------ bounds
MaxSpawns == 2      \* spawn() calls on the domain
MaxSplits == 1      \* split_pane() calls on the domain
MaxWrites == 1      \* bytes the caller writes into the placeholder stdin pipe
MaxSize   == 2      \* terminal geometries are 1..MaxSize
MaxClones == 2      \* try_clone_reader() calls on the PTY handle
MaxLine   == 3      \* characters in a line given to highlight_line

Sizes == 1..MaxSize

\* ------------------------------------------------------ program constants
\* The four delivery channels, in the order connect_ssh_session sends on them.
SendOrder == <<"stdin_tx", "stdout_tx", "pty_tx", "child_tx">>
Chans == {"stdin_tx", "stdout_tx", "pty_tx", "child_tx"}

\* ExitStatus::with_exit_code(1), the fixed abnormal status.
ErrorExitCode == 1
\* Option::<ExitStatus>::None
NoStatus == -1
\* Exit codes the real child may report through async_wait.
RealExitCodes == {0, 2}

\* ---------------------------------------------------------- session events
Ev(k, some, hdr, prompts) == [kind |-> k, some |-> some, hdr |-> hdr, prompts |-> prompts]
Prompt(echo, lines) == [echo |-> echo, lines |-> lines]

EvBanner(some)    == Ev("Banner", some, 0, <<>>)
EvHostVerify      == Ev("HostVerify", TRUE, 0, <<>>)
EvAuth(hdr, ps)   == Ev("Authenticate", TRUE, hdr, ps)
EvError           == Ev("Error", TRUE, 0, <<>>)
EvAuthenticated   == Ev("Authenticated", TRUE, 0, <<>>)

\* [Banner("hi"), HostVerify, Authenticate([{"Password:", false}]), Authenticated]
StreamE2E == << EvBanner(TRUE), EvHostVerify,
                EvAuth(1, <<Prompt(FALSE, 1)>>), EvAuthenticated >>

\* The event streams the Session may emit (the stream is an input of the run).
Streams ==
  { StreamE2E,
    << EvError, EvAuthenticated >>,
    << EvAuth(0, <<Prompt(TRUE, 2), Prompt(FALSE, 1)>>), EvAuthenticated >>,
    << EvBanner(FALSE), EvAuth(2, <<>>), EvAuthenticated, EvBanner(TRUE) >>,
    << EvHostVerify >>,
    << >> }

\* Lines the line editor may return for the host-verify prompt.
HvLines == {"y", "Y", "yes", "YES", "n", "N", "no", "NO", "", "Yes", "yy"}
\* Lines the line editor may return for an authentication prompt.
AuthLines == {"secret", "other"}

\* LineEditor::read_line results: Ok(Some(line)), Ok(None), Err(_)
EdLine(l) == [tag |-> "line", line |-> l]
EdNone    == [tag |-> "none", line |-> ""]
EdErr     == [tag |-> "err",  line |-> ""]

VARIABLES
  \* --- Session (external)
  stream,      \* the events the Session emits in this run
  evClosed,    \* the Session dropped its sender
  \* --- RemoteSshDomain and the caller's main thread
  events,      \* self.events is Some(_)
  cpc,         \* main thread: "idle", "spawn_pane", "spawn_direct", "split_direct",
               \*              "flush_recv", "wait_rx", "wait_status"
  nSpawn, nSplit, nWorkers, nDirect, nPipes,
  paneUp,      \* the first spawn's pane was built and returned
  \* --- delivery channels
  chq,         \* values queued per channel
  rxOpen,      \* the wrapper holding the receiver is alive
  recvd,       \* values received per channel
  sendLog,     \* channels on which a value was sent, in order
  \* --- placeholder pipes
  outBuf,      \* output units sitting in the worker's BufWriter
  outPipe,     \* output units in the stdout socket pair
  inPipe,      \* bytes in the stdin socket pair
  nWritten,    \* bytes the caller wrote to the placeholder
  \* --- wrappers
  wDst,        \* PtyWriter.writer: "ph" or "real"
  rDst,        \* PtyReader.reader: "ph" or "real"
  rpc,         \* reader thread: "none" (reader not taken), "idle", "read_recv", "gone"
  rOrig,       \* result of the placeholder read a blocked read will fall back to
  ptyState,    \* WrappedSshPtyInner: "Connecting" or "Connected"
  readerHeld,  \* the Option<PtyReader> inside the handle is Some
  size,        \* the shared geometry Arc<Mutex<PtySize>>
  realSize,    \* the real SshPty's size (0: no real PTY yet)
  chStatus,    \* WrappedSshChild.status is Some(_)
  exited,      \* WrappedSshChild.exited (NoStatus: None)
  statusCh,    \* the bounded(1) status channel: "none","pending","full","closed","drained"
  statusVal,   \* the status sitting in it
  \* --- worker
  wpc, evIdx, promptIdx, answers, wres, ptyReq, reqSize,
  \* --- observation of the latest operation (ghost)
  last,        \* the caller's latest wrapper operation
  wlast,       \* the worker's latest answer operation
  lineLog,     \* lines the editor returned for the current Authenticate event
  ansCount,    \* answer invocations per consumed event
  rlast,       \* the reader thread's latest read
  cloneLog,    \* results of the try_clone_reader calls so far
  latched,     \* size of the latest resize that returned Ok while Connecting,
               \* with no resize issued after it (0: none)
  \* --- PasswordPromptHost
  hlIn,        \* arguments of a highlight_line call (with self.echo)
  hlOut,       \* what the call returned
  \* --- TerminalShim::poll_input
  ppc,         \* "out": no call running; "wait_none" / "wait_some": in the loop
               \* of a call made with wait = None / Some(_)
  startSize,   \* starting_size of the running call (0: none)
  inputQueue,  \* events sitting in self.input_queue
  known        \* the geometry the calls of the current prompt have accounted
               \* for: the first snapshot, then each Resized event (ghost)

sessVars   == <<stream, evClosed>>
domVars    == <<events, nSpawn, nSplit, nWorkers, nDirect, nPipes, paneUp>>
chanVars   == <<chq, rxOpen, recvd>>
pipeVars   == <<outBuf, outPipe, inPipe, nWritten>>
writerVars == <<wDst>>
readerVars == <<rDst, rpc, rOrig>>
ptyVars    == <<ptyState, readerHeld, size, realSize, latched, cloneLog>>
childVars  == <<chStatus, exited, statusCh, statusVal>>
workerVars == <<wpc, evIdx, promptIdx, answers, wres, ptyReq, reqSize,
                sendLog, wlast, lineLog, ansCount>>

hostVars   == <<hlIn, hlOut>>
shimVars   == <<ppc, startSize, inputQueue, known>>

vars == <<sessVars, domVars, cpc, chanVars, pipeVars, writerVars, readerVars,
          ptyVars, childVars, workerVars, last, rlast, hostVars, shimVars>>

\* ------------------------------------------------------------ observations
Obs(op, pre, tgt, res, val, polled) ==
  [op |-> op, pre |-> pre, tgt |-> tgt, res |-> res, val |-> val, polled |-> polled,
   arg |-> 0]
\* an operation of the PTY handle: arg is the size check_connected passed to the
\* real PTY's resize (0 when it did not promote)
PtyObs(op, pre, tgt, res, val, polled, arg) ==
  [op |-> op, pre |-> pre, tgt |-> tgt, res |-> res, val |-> val, polled |-> polled,
   arg |-> arg]
NoObs == Obs("none", "", "", "", 0, FALSE)

WObs(kind, ev, line, val) == [kind |-> kind, ev |-> ev, line |-> line, val |-> val]
NoWObs == WObs("none", 0, <<>>, <<>>)

\* An observation is kept until the next step of any thread, and while the
\* operation it belongs to is blocked in a receive.
KeepLast  == last' = IF cpc \in {"flush_recv", "wait_rx", "wait_status"} THEN last ELSE NoObs
KeepRLast == rlast' = IF rpc = "read_recv" THEN rlast ELSE NoObs
Quiet     == wlast' = NoWObs /\ KeepLast /\ KeepRLast

\* ------------------------------------------------------------------- Init
\* no highlight_line call
NoHl == [tag |-> "none"]
HlIdle == hlIn = NoHl /\ hlOut = NoHl
\* no poll_input call, an empty input_queue
NoKnown == [ev |-> 0, pr |-> 0, size |-> 0]
ShimIdle == ppc = "out" /\ startSize = 0 /\ inputQueue = 0 /\ known = NoKnown

InitBridge(S) ==
  /\ stream \in S
  /\ evClosed = FALSE
  /\ events = TRUE
  /\ cpc = "idle"
  /\ nSpawn = 0 /\ nSplit = 0 /\ nWorkers = 0 /\ nDirect = 0 /\ nPipes = 0
  /\ paneUp = FALSE
  /\ chq = [c \in Chans |-> 0]
  /\ rxOpen = [c \in Chans |-> FALSE]
  /\ recvd = [c \in Chans |-> 0]
  /\ sendLog = <<>>
  /\ outBuf = 0 /\ outPipe = 0 /\ inPipe = 0 /\ nWritten = 0
  /\ wDst = "ph" /\ rDst = "ph" /\ rpc = "none" /\ rOrig = "eof"
  /\ ptyState = "Connecting" /\ readerHeld = FALSE
  /\ size = 1 /\ realSize = 0
  /\ chStatus = FALSE /\ exited = NoStatus /\ statusCh = "none" /\ statusVal = NoStatus
  /\ wpc = "idle" /\ evIdx = 0 /\ promptIdx = 0 /\ answers = <<>>
  /\ wres = "none" /\ ptyReq = "none" /\ reqSize = 0
  /\ last = NoObs /\ wlast = NoWObs /\ lineLog = <<>>
  /\ ansCount = <<>>
  /\ rlast = NoObs /\ cloneLog = <<>>
  /\ latched = 0
  /\ ShimIdle

InitWith(S) == InitBridge(S) /\ HlIdle

Init == InitWith(Streams)

\* The runs of the wrapper specifications: one stream that authenticates and
\* one that ends before Authenticated.
WrapStreams ==
  { << EvError, EvAuthenticated >>,
    << EvBanner(TRUE), EvHostVerify, EvAuth(1, <<Prompt(FALSE, 2)>>) >> }
InitWrap == InitWith(WrapStreams)

\* ---------------------------------------------------------------- Session
\* The events of the run sit in the event channel; the Session drops its
\* sender at some point after emitting them. Only a recv on the drained
\* channel can tell, so the drop is taken when the worker is there.
SessionClose ==
  /\ ~evClosed
  /\ wpc = "recv" /\ evIdx = Len(stream)
  /\ evClosed' = TRUE
  /\ UNCHANGED <<stream, domVars, cpc, chanVars, pipeVars, writerVars,
                 readerVars, ptyVars, childVars, wpc, evIdx, promptIdx, answers,
                 wres, ptyReq, reqSize, sendLog, lineLog, ansCount, hostVars, shimVars>>
  /\ Quiet

\* ------------------------------------------------- ownership of the ends
\* The four senders and stdin_read are owned by connect_ssh_session's frame.
TxOpen == wpc \notin {"idle", "tail", "done"}
\* stdout_write (inside the BufWriter) is owned by the thread closure.
StdoutWriteOpen == wpc \notin {"idle", "done"}
\* stdout_read is owned by the PtyReader until it switches to the real reader.
StdoutReadOpen == rxOpen["stdout_tx"] /\ rDst = "ph"
\* stdin_write is owned by the PtyWriter until it switches to the real writer.
StdinWriteOpen == rxOpen["stdin_tx"] /\ wDst = "ph"

\* Outcomes of writing k output units through the BufWriter: it can only fail
\* when it reaches a socket whose peer is gone.
OutOk(k) == IF k = 0 \/ StdoutReadOpen THEN {TRUE} ELSE {TRUE, FALSE}

\* What LineEditor::read_line may return.
EdResults(lines) ==
  {EdLine(l) : l \in lines} \cup {EdNone}
    \cup (IF StdoutReadOpen /\ StdinWriteOpen THEN {} ELSE {EdErr})

\* "y" | "Y" | "yes" | "YES" => true, anything else and no line => false
\* (variant: "Yes" is accepted too)
IsAffirmative_Lenient(r) == r.tag = "line" /\ r.line \in {"y", "Y", "yes", "YES", "Yes"}
IsAffirmative(r) == r.tag = "line" /\ r.line \in {"y", "Y", "yes", "YES"}

\* answers.push(line)
\* (variant: answers.insert(0, line))
PushAnswer_Front(as, line) == <<line>> \o as
PushAnswer(as, line) == Append(as, line)

WorkerFrame == UNCHANGED <<sessVars, domVars, cpc, rxOpen, recvd, nWritten,
                           writerVars, readerVars, ptyState, readerHeld, size,
                           latched, cloneLog, childVars, hostVars,
                           shimVars>>
               /\ KeepLast /\ KeepRLast

\* shim.output_line(..)? k times, then continue at pcNext
OutputLines(k, ok, pcNext, resNext) ==
  /\ outBuf' = IF ok THEN outBuf + k ELSE outBuf
  /\ wpc' = IF ok THEN pcNext ELSE "tail"
  /\ wres' = IF ok THEN resNext ELSE "err_io"

NextEvent == stream[evIdx + 1]
HasEvent(kind) == wpc = "recv" /\ evIdx < Len(stream) /\ NextEvent.kind = kind

\* where `while let Ok(event)` goes when recv() fails
\* (variant: the loop asks the closed channel again)
AfterStreamEnd_Spins == "recv"
AfterStreamEnd == "tail"

\* events.recv() fails: the loop ends and the function returns Ok(())
W_StreamEnd ==
  /\ wpc = "recv" /\ evIdx = Len(stream) /\ evClosed
  /\ wpc' = AfterStreamEnd /\ wres' = "ok"
  /\ wlast' = NoWObs
  /\ UNCHANGED <<evIdx, promptIdx, answers, ptyReq, reqSize, sendLog, lineLog,
                 ansCount, chq, outBuf, outPipe, inPipe, realSize>>
  /\ WorkerFrame

W_Banner ==
  /\ HasEvent("Banner")
  /\ evIdx' = evIdx + 1
  /\ ansCount' = Append(ansCount, 0)
  /\ LET k == IF NextEvent.some THEN 1 ELSE 0 IN
       \E ok \in OutOk(k) : OutputLines(k, ok, "recv", wres)
  /\ wlast' = NoWObs
  /\ UNCHANGED <<promptIdx, answers, ptyReq, reqSize, sendLog, lineLog,
                 chq, outPipe, inPipe, realSize>>
  /\ WorkerFrame

\* where the Error arm goes on once the line is written
\* (variant: the arm leaves the loop, as the one of ssh_connect_with_ui does)
AfterError_Bails == "tail"
AfterError == "recv"

W_Error ==
  /\ HasEvent("Error")
  /\ evIdx' = evIdx + 1
  /\ ansCount' = Append(ansCount, 0)
  /\ \E ok \in OutOk(1) : OutputLines(1, ok, AfterError, wres)
  /\ wlast' = NoWObs
  /\ UNCHANGED <<promptIdx, answers, ptyReq, reqSize, sendLog, lineLog,
                 chq, outPipe, inPipe, realSize>>
  /\ WorkerFrame

W_HostVerify ==
  /\ HasEvent("HostVerify")
  /\ evIdx' = evIdx + 1
  /\ ansCount' = Append(ansCount, 0)
  /\ \E ok \in OutOk(1) : OutputLines(1, ok, "hv_prompt", wres)
  /\ wlast' = NoWObs
  /\ UNCHANGED <<promptIdx, answers, ptyReq, reqSize, sendLog, lineLog,
                 chq, outPipe, inPipe, realSize>>
  /\ WorkerFrame

W_Authenticate ==
  /\ HasEvent("Authenticate")
  /\ evIdx' = evIdx + 1
  /\ ansCount' = Append(ansCount, 0)
  /\ answers' = <<>>
  /\ lineLog' = <<>>
  /\ promptIdx' = 1
  /\ LET k == NextEvent.hdr
         pcNext == IF Len(NextEvent.prompts) = 0 THEN "auth_answer" ELSE "auth_prompt"
     IN \E ok \in OutOk(k) : OutputLines(k, ok, pcNext, wres)
  /\ wlast' = NoWObs
  /\ UNCHANGED <<ptyReq, reqSize, sendLog, chq, outPipe, inPipe, realSize>>
  /\ WorkerFrame

CurEvent == stream[evIdx]

\* LineEditor::new, set_prompt and the start of read_line: the lines of the
\* prompt before the last are output, set_raw_mode writes and flushes.
W_EditStart ==
  /\ wpc \in {"hv_prompt", "auth_prompt"}
  /\ LET extra == IF wpc = "auth_prompt"
                  THEN CurEvent.prompts[promptIdx].lines - 1 ELSE 0
         pcNext == IF wpc = "auth_prompt" THEN "auth_edit" ELSE "hv_edit"
     IN \E ok \in OutOk(1) :
          /\ outBuf' = 0
          /\ outPipe' = IF StdoutReadOpen THEN outPipe + outBuf + extra + 1 ELSE outPipe
          /\ wpc' = IF ok THEN pcNext ELSE "tail"
          /\ wres' = IF ok THEN wres ELSE "err_io"
  /\ wlast' = NoWObs
  /\ UNCHANGED <<evIdx, promptIdx, answers, ptyReq, reqSize, sendLog, lineLog,
                 ansCount, chq, inPipe, realSize>>
  /\ WorkerFrame

\* TerminalShim::poll_input reads what the caller typed.
W_PollInput ==
  /\ wpc \in {"hv_edit", "auth_edit"}
  /\ inPipe > 0
  /\ \E n \in 1..inPipe : inPipe' = inPipe - n
  /\ wlast' = NoWObs
  /\ UNCHANGED <<wpc, wres, evIdx, promptIdx, answers, ptyReq, reqSize, sendLog,
                 lineLog, ansCount, chq, outBuf, outPipe, realSize>>
  /\ WorkerFrame

\* ------------------------------------------- poll_input, statement by statement
\* the prompt the line editor is running
InPrompt == wpc \in {"hv_edit", "auth_edit"}
KnownHere == known.ev = evIdx /\ known.pr = promptIdx
Account(s) == [ev |-> evIdx, pr |-> promptIdx, size |-> s]

PollFrame ==
  /\ wlast' = NoWObs
  /\ UNCHANGED <<wpc, wres, evIdx, promptIdx, answers, ptyReq, reqSize, sendLog,
                 lineLog, ansCount, chq, outBuf, outPipe, realSize>>
  /\ UNCHANGED <<sessVars, domVars, cpc, rxOpen, recvd, nWritten, writerVars,
                 readerVars, ptyState, readerHeld, size, latched, cloneLog,
                 childVars, hostVars>>
  /\ KeepLast /\ KeepRLast

\* entry: a queued event is returned at once; otherwise the deadline is
\* computed, starting_size is read and the loop is entered
P_Start ==
  /\ InPrompt /\ ppc = "out"
  /\ IF inputQueue > 0
     THEN /\ inputQueue' = inputQueue - 1
          /\ UNCHANGED <<ppc, startSize, known>>
     ELSE /\ \E wait \in {"wait_none", "wait_some"} : ppc' = wait
          /\ startSize' = size
          /\ known' = IF KnownHere THEN known ELSE Account(size)
          /\ UNCHANGED inputQueue
  /\ UNCHANGED inPipe
  /\ PollFrame

\* Instant::now() >= deadline: Ok(None)
P_Deadline ==
  /\ ppc = "wait_some"
  /\ ppc' = "out" /\ startSize' = 0
  /\ UNCHANGED <<inPipe, inputQueue, known>>
  /\ PollFrame

\* poll() reports stdin readable: the bytes are read and parsed into the
\* queue and its first event is returned (none at end of file)
P_Read ==
  /\ ppc # "out"
  /\ \/ /\ inPipe > 0
        /\ \E n \in 1..inPipe :
             /\ inPipe' = inPipe - n
             /\ inputQueue' = inputQueue + n - 1
     \/ /\ inPipe = 0 /\ ~StdinWriteOpen
        /\ UNCHANGED <<inPipe, inputQueue>>
  /\ ppc' = "out" /\ startSize' = 0
  /\ UNCHANGED known
  /\ PollFrame

\* poll() timed out and starting_size != size: Resized with the live size
P_Resized ==
  /\ ppc # "out"
  /\ inPipe = 0 /\ StdinWriteOpen
  /\ startSize # size
  /\ known' = Account(size)
  /\ ppc' = "out" /\ startSize' = 0
  /\ UNCHANGED <<inPipe, inputQueue>>
  /\ PollFrame

PollInput == P_Start \/ P_Deadline \/ P_Read \/ P_Resized

BumpAns == [ansCount EXCEPT ![evIdx] = @ + 1]

\* read_line returns for the host-verify prompt and verify.answer(ok) is sent
W_HvReadLine ==
  /\ wpc = "hv_edit"
  /\ \E r \in EdResults(HvLines) :
       IF r.tag = "err"
       THEN /\ wpc' = "tail" /\ wres' = "err_io"
            /\ wlast' = NoWObs
            /\ UNCHANGED ansCount
       ELSE /\ wlast' = WObs("verify", evIdx, <<r>>, <<IsAffirmative(r)>>)
            /\ ansCount' = BumpAns
            /\ \E sent \in BOOLEAN :
                 /\ wpc' = IF sent THEN "recv" ELSE "tail"
                 /\ wres' = IF sent THEN wres ELSE "err_answer"
  /\ UNCHANGED <<evIdx, promptIdx, answers, ptyReq, reqSize, sendLog, lineLog,
                 chq, outBuf, outPipe, inPipe, realSize>>
  /\ WorkerFrame

\* read_line returns for one authentication prompt
W_AuthReadLine ==
  /\ wpc = "auth_edit"
  /\ \E r \in EdResults(AuthLines) :
       CASE r.tag = "err" ->
              /\ wpc' = "tail" /\ wres' = "err_io"
              /\ UNCHANGED <<answers, lineLog, promptIdx>>
         [] r.tag = "none" ->
              /\ wpc' = "tail" /\ wres' = "err_cancelled"
              /\ UNCHANGED <<answers, lineLog, promptIdx>>
         [] OTHER ->
              /\ answers' = PushAnswer(answers, r.line)
              /\ lineLog' = Append(lineLog, r.line)
              /\ IF promptIdx < Len(CurEvent.prompts)
                 THEN /\ promptIdx' = promptIdx + 1 /\ wpc' = "auth_prompt"
                 ELSE /\ promptIdx' = promptIdx /\ wpc' = "auth_answer"
              /\ wres' = wres
  /\ wlast' = NoWObs
  /\ UNCHANGED <<evIdx, ptyReq, reqSize, sendLog, ansCount,
                 chq, outBuf, outPipe, inPipe, realSize>>
  /\ WorkerFrame

\* auth.answer(answers)
W_AuthAnswer ==
  /\ wpc = "auth_answer"
  /\ wlast' = WObs("auth", evIdx, lineLog, answers)
  /\ ansCount' = BumpAns
  /\ \E sent \in BOOLEAN :
       /\ wpc' = IF sent THEN "recv" ELSE "tail"
       /\ wres' = IF sent THEN wres ELSE "err_answer"
  /\ UNCHANGED <<evIdx, promptIdx, answers, ptyReq, reqSize, sendLog, lineLog,
                 chq, outBuf, outPipe, inPipe, realSize>>
  /\ WorkerFrame

\* Authenticated: the arguments of request_pty are evaluated (the geometry is read)
W_Authenticated ==
  /\ HasEvent("Authenticated")
  /\ evIdx' = evIdx + 1
  /\ ansCount' = Append(ansCount, 0)
  /\ reqSize' = size
  /\ wpc' = "request_pty"
  /\ wlast' = NoWObs
  /\ UNCHANGED <<wres, promptIdx, answers, ptyReq, sendLog, lineLog,
                 chq, outBuf, outPipe, inPipe, realSize>>
  /\ WorkerFrame

\* where the worker goes after rendering "Failed to spawn command": break
\* (variants: the arm falls through to the sends; the loop continues)
AfterRequestFailed_FallsThrough == "send_stdin"
AfterRequestFailed_Continues == "recv"
AfterRequestFailed == "tail"

\* session.request_pty(..) completes; on Ok the shim is dropped and the real
\* reader and writer are cloned from the PTY
W_RequestPty ==
  /\ wpc = "request_pty"
  /\ \E r \in {"ok", "err", "clone_err"} :
       CASE r = "err" ->
              /\ ptyReq' = "err"
              /\ realSize' = realSize
              /\ \E ok \in OutOk(1) : OutputLines(1, ok, AfterRequestFailed, "ok")
         [] r = "clone_err" ->
              /\ ptyReq' = "ok"
              /\ realSize' = reqSize
              /\ wpc' = "tail" /\ wres' = "err_clone"
              /\ outBuf' = outBuf
         [] OTHER ->
              /\ ptyReq' = "ok"
              /\ realSize' = reqSize
              /\ wpc' = "send_stdin" /\ wres' = wres
              /\ outBuf' = outBuf
  /\ wlast' = NoWObs
  /\ UNCHANGED <<evIdx, promptIdx, answers, reqSize, sendLog, lineLog, ansCount,
                 chq, outPipe, inPipe>>
  /\ WorkerFrame

\* `?` on a failed send: the function returns
\* (variant: the failure is ignored and the statement after the send runs)
AfterSendFailed_GoesOn(pcNext) == pcNext
AfterSendFailed(pcNext) == "tail"

\* tx.send(value)?: fails when the receiver was dropped
SendValue(c, pcNext, resNext) ==
  IF rxOpen[c]
  THEN /\ chq' = [chq EXCEPT ![c] = @ + 1]
       /\ sendLog' = Append(sendLog, c)
       /\ wpc' = pcNext /\ wres' = resNext
  ELSE /\ wpc' = AfterSendFailed(pcNext) /\ wres' = "err_send"
       /\ UNCHANGED <<chq, sendLog>>

SendFrame ==
  /\ wlast' = NoWObs
  /\ UNCHANGED <<evIdx, promptIdx, answers, ptyReq, reqSize, lineLog, ansCount,
                 outBuf, outPipe, inPipe, realSize>>
  /\ WorkerFrame

\* the statement that follows the send on channel c
\* (variant: the PTY handle is sent before the reader)
AfterSend_Swapped(c) ==
  CASE c = "stdin_tx"  -> "send_pty"
    [] c = "pty_tx"    -> "send_stdout"
    [] c = "stdout_tx" -> "send_child"
    [] OTHER           -> "tail"
AfterSend(c) ==
  CASE c = "stdin_tx"  -> "send_stdout"
    [] c = "stdout_tx" -> "send_pty"
    [] c = "pty_tx"    -> "send_child"
    [] OTHER           -> "tail"

W_SendWriter ==
  wpc = "send_stdin"  /\ SendValue("stdin_tx", AfterSend("stdin_tx"), wres) /\ SendFrame
W_SendReader ==
  wpc = "send_stdout" /\ SendValue("stdout_tx", AfterSend("stdout_tx"), wres) /\ SendFrame
W_SendPty ==
  wpc = "send_pty"    /\ SendValue("pty_tx", AfterSend("pty_tx"), wres) /\ SendFrame
\* child_tx.send(child)?; return Ok(())
W_SendChild ==
  wpc = "send_child"  /\ SendValue("child_tx", AfterSend("child_tx"), "ok") /\ SendFrame

\* let _ = stdout_write.flush(): what reaches the socket of n buffered units
\* (variant: the closure ends without flushing)
ExitFlush_Skipped(n) == 0
ExitFlush(n) == n

\* After connect_ssh_session returned: the error is written to stdout_write,
\* the BufWriter is flushed and dropped with the closure.
W_ThreadTail ==
  /\ wpc = "tail"
  /\ LET k == IF wres = "ok" THEN 0 ELSE 1 IN
       /\ outBuf' = 0
       /\ outPipe' = IF StdoutReadOpen THEN outPipe + ExitFlush(outBuf + k)
                                      ELSE outPipe
  /\ wpc' = "done"
  /\ wlast' = NoWObs
  /\ UNCHANGED <<wres, evIdx, promptIdx, answers, ptyReq, reqSize, sendLog, lineLog,
                 ansCount, chq, inPipe, realSize>>
  /\ WorkerFrame

\* The worker, apart from reading typed input.
WorkerCore ==
  \/ W_StreamEnd \/ W_Banner \/ W_Error \/ W_HostVerify \/ W_Authenticate
  \/ W_EditStart \/ W_HvReadLine \/ W_AuthReadLine \/ W_AuthAnswer
  \/ W_Authenticated \/ W_RequestPty
  \/ W_SendWriter \/ W_SendReader \/ W_SendPty \/ W_SendChild
  \/ W_ThreadTail

Worker == WorkerCore \/ W_PollInput

\* ------------------------------------------------ RemoteSshDomain::spawn
\* The first spawn took the events: socketpairs, channels, the four wrappers
\* and the worker thread are created.
Bootstrap(sz) ==
  /\ rxOpen' = [c \in Chans |-> TRUE]
  /\ size' = sz
  /\ readerHeld' = TRUE
  /\ wpc' = "recv"
  /\ nWorkers' = nWorkers + 1
  /\ nPipes' = nPipes + 1

\* self.events.borrow_mut().take() leaves None in the domain
\* (variant: the events are borrowed and stay in the domain)
TakeEvents_Kept == TRUE
TakeEvents == FALSE

CallerFrame == UNCHANGED <<sessVars, evIdx, promptIdx, answers, wres, ptyReq, reqSize,
                           sendLog, lineLog, ansCount, outBuf, hostVars,
                           shimVars>>
               /\ Quiet

SpawnBegin ==
  /\ cpc = "idle"
  /\ nSpawn < MaxSpawns
  /\ nSpawn' = nSpawn + 1
  /\ IF events
     THEN /\ events' = TakeEvents
          /\ \E sz \in Sizes, pipesOk \in BOOLEAN :
               IF pipesOk
               THEN /\ Bootstrap(sz)
                    /\ cpc' = "spawn_pane"
               ELSE /\ cpc' = "idle"
                    /\ UNCHANGED <<rxOpen, size, readerHeld, wpc, nWorkers, nPipes>>
     ELSE /\ cpc' = "spawn_direct"
          /\ UNCHANGED <<events, rxOpen, size, readerHeld, wpc, nWorkers, nPipes>>
  /\ UNCHANGED <<nSplit, nDirect, paneUp, chq, recvd, outPipe, inPipe, nWritten,
                 writerVars, readerVars, ptyState, realSize, latched,
                 cloneLog, childVars>>
  /\ CallerFrame

\* What the rest of spawn needs from the worker before it can go on: nothing,
\* it receives from no channel and reads no pipe.
\* (variant: spawn waits until the real PTY was sent)
SpawnReady_AwaitsPty == chq["pty_tx"] > 0
SpawnReady == TRUE

\* Terminal::new, LocalPane::new, Tab::new, mux.add_tab_and_active_pane(..)?,
\* mux.add_tab_to_window(..)?, Ok(tab)
SpawnPane ==
  /\ cpc = "spawn_pane"
  /\ SpawnReady
  /\ cpc' = "idle"
  /\ \E ok \in BOOLEAN :
       IF ok
       THEN /\ paneUp' = TRUE
            /\ UNCHANGED <<rxOpen, readerHeld>>
       ELSE /\ paneUp' = paneUp
            /\ rxOpen' = [c \in Chans |-> FALSE]
            /\ readerHeld' = FALSE
  /\ UNCHANGED <<events, nSpawn, nSplit, nWorkers, nDirect, nPipes, chq, recvd,
                 outPipe, inPipe, nWritten, writerVars, readerVars, ptyState, size,
                 realSize, latched, cloneLog, childVars, wpc>>
  /\ CallerFrame

\* self.session.request_pty(..).await? of a later spawn
SpawnDirect ==
  /\ cpc = "spawn_direct"
  /\ cpc' = "idle"
  /\ nDirect' = nDirect + 1
  /\ UNCHANGED <<events, nSpawn, nSplit, nWorkers, nPipes, paneUp, chanVars,
                 outPipe, inPipe, nWritten, writerVars, readerVars, ptyVars,
                 childVars, wpc>>
  /\ CallerFrame

\* split_pane: the tab, pane and split size are looked up (bail on failure)
SplitBegin ==
  /\ cpc = "idle"
  /\ nSplit < MaxSplits
  /\ nSplit' = nSplit + 1
  /\ \E valid \in BOOLEAN : cpc' = IF valid THEN "split_direct" ELSE "idle"
  /\ UNCHANGED <<events, nSpawn, nWorkers, nDirect, nPipes, paneUp, chanVars,
                 outPipe, inPipe, nWritten, writerVars, readerVars, ptyVars,
                 childVars, wpc>>
  /\ CallerFrame

\* self.session.request_pty(..).await? of split_pane
SplitDirect ==
  /\ cpc = "split_direct"
  /\ cpc' = "idle"
  /\ nDirect' = nDirect + 1
  /\ UNCHANGED <<events, nSpawn, nSplit, nWorkers, nPipes, paneUp, chanVars,
                 outPipe, inPipe, nWritten, writerVars, readerVars, ptyVars,
                 childVars, wpc>>
  /\ CallerFrame

\* The pane is closed: the writer, the PTY handle and the child wrapper are
\* dropped, and the reader with the handle if nobody took it.
DropPane ==
  /\ cpc = "idle" /\ paneUp
  /\ rxOpen["pty_tx"]
  /\ rxOpen' = [c \in Chans |->
                  IF c = "stdout_tx" THEN rxOpen[c] /\ ~readerHeld ELSE FALSE]
  /\ readerHeld' = FALSE
  /\ UNCHANGED <<domVars, cpc, chq, recvd, outPipe, inPipe, nWritten, writerVars,
                 readerVars, ptyState, size, realSize, latched, cloneLog,
                 childVars, wpc>>
  /\ CallerFrame

\* The reader thread ends and drops the PtyReader.
DropReader ==
  /\ rpc = "idle"
  /\ rpc' = "gone"
  /\ rxOpen' = [rxOpen EXCEPT !["stdout_tx"] = FALSE]
  /\ UNCHANGED <<domVars, cpc, chq, recvd, outPipe, inPipe, nWritten, writerVars,
                 rDst, rOrig, ptyVars, childVars, wpc>>
  /\ CallerFrame

\* ------------------------------------------------------ wrapper helpers
Sent(c) == \E i \in 1..Len(sendLog) : sendLog[i] = c

\* What the wrapper knows/was sent when an operation starts.
Pre(c, dst) == IF dst = "real" THEN "switched"
               ELSE IF Sent(c) THEN "sent" ELSE "unsent"

\* A receive that returns Ok(value): the value leaves the channel.
\* (variant: the value stays in the channel)
RecvValue_Peek(c) ==
  /\ chq' = chq
  /\ recvd' = [recvd EXCEPT ![c] = @ + 1]
RecvValue(c) ==
  /\ chq' = [chq EXCEPT ![c] = @ - 1]
  /\ recvd' = [recvd EXCEPT ![c] = @ + 1]

\* rx.try_recv() is Ok(_)
HasValue(c) == chq[c] > 0
\* rx.recv() is Err(_): empty and every sender dropped
Disconnected(c) == chq[c] = 0 /\ ~TxOpen

WrapFrame == UNCHANGED <<sessVars, domVars, rxOpen, wpc, evIdx, promptIdx, answers,
                         wres, ptyReq, reqSize, sendLog, lineLog, ansCount,
                         outBuf, hostVars, shimVars>>
             /\ wlast' = NoWObs

\* frames of the main thread's and of the reader thread's wrapper operations
MainFrame == WrapFrame /\ KeepRLast
ReadFrame == WrapFrame /\ KeepLast

\* --------------------------------------------------------------- PtyWriter
\* if let Ok(writer) = self.rx.try_recv() { self.writer = writer; }
\* (variant: write does not look at the channel)
WriterPickup_Never == FALSE
WriterPickup == HasValue("stdin_tx")

\* PtyWriter::write
PtyWrite ==
  /\ paneUp /\ cpc = "idle" /\ rxOpen["stdin_tx"]
  /\ LET got == WriterPickup
         dst == IF got THEN "real" ELSE wDst
         pre == Pre("stdin_tx", wDst)
     IN /\ wDst' = dst
        /\ IF got THEN RecvValue("stdin_tx") ELSE UNCHANGED <<chq, recvd>>
        /\ IF dst = "ph" /\ TxOpen
           THEN /\ nWritten < MaxWrites
                /\ inPipe' = inPipe + 1
                /\ nWritten' = nWritten + 1
                /\ last' = Obs("write", pre, "ph", "ok", 1, TRUE)
           ELSE /\ UNCHANGED <<inPipe, nWritten>>
                /\ \E r \in {"ok", "err"} : last' = Obs("write", pre, dst, r, 0, TRUE)
  /\ UNCHANGED <<cpc, outPipe, readerVars, ptyVars, childVars>>
  /\ MainFrame

\* Results of flush on the current writer: the placeholder's flush can only
\* fail once the worker closed its end.
FlushResults(dst) == IF dst = "ph" /\ TxOpen THEN {"ok"} ELSE {"ok", "err"}

\* PtyWriter::flush, up to the blocking recv
PtyFlush ==
  /\ paneUp /\ cpc = "idle" /\ rxOpen["stdin_tx"]
  /\ \E r \in FlushResults(wDst) :
       IF r = "ok"
       THEN /\ cpc' = "idle"
            /\ last' = Obs("flush", Pre("stdin_tx", wDst), wDst, "ok", 0, FALSE)
       ELSE /\ cpc' = "flush_recv"
            /\ last' = Obs("flush", Pre("stdin_tx", wDst), wDst, "pending", 0, TRUE)
  /\ UNCHANGED <<chq, recvd, outPipe, inPipe, nWritten, writerVars, readerVars,
                 ptyVars, childVars>>
  /\ MainFrame

\* `_ => res`: no writer arrived, the result of the first flush is returned
\* (variant: the failure is dropped)
FlushFallback_Swallowed(res) == "ok"
FlushFallback(res) == res

\* PtyWriter::flush: self.rx.recv() returned
PtyFlushRecv ==
  /\ cpc = "flush_recv"
  /\ cpc' = "idle"
  /\ \/ /\ HasValue("stdin_tx")
        /\ RecvValue("stdin_tx")
        /\ wDst' = "real"
        /\ \E r \in {"ok", "err"} :
             last' = Obs("flush", last.pre, last.tgt \o "+real", r, 0, TRUE)
     \/ /\ Disconnected("stdin_tx")
        /\ UNCHANGED <<chq, recvd, wDst>>
        /\ last' = Obs("flush", last.pre, last.tgt, FlushFallback("err"), 0, TRUE)
  /\ UNCHANGED <<outPipe, inPipe, nWritten, readerVars, ptyVars, childVars>>
  /\ MainFrame

\* --------------------------------------------------------------- PtyReader
\* PtyReader::read, the read on the current reader
PtyRead ==
  /\ rpc = "idle" /\ rxOpen["stdout_tx"]
  /\ LET pre == Pre("stdout_tx", rDst) IN
     \/ /\ rDst = "ph" /\ outPipe > 0
        /\ \E n \in 1..outPipe :
             /\ outPipe' = outPipe - n
             /\ rlast' = Obs("read", pre, "ph", "data", n, FALSE)
        /\ UNCHANGED <<rpc, rOrig>>
     \/ /\ rDst = "ph" /\ ~StdoutWriteOpen
        /\ \E r \in (IF outPipe = 0 THEN {"eof", "err"} ELSE {"err"}) :
             /\ rOrig' = r
             /\ rlast' = Obs("read", pre, "ph", "pending", 0, TRUE)
        /\ rpc' = "read_recv"
        /\ UNCHANGED outPipe
     \/ /\ rDst = "real"
        /\ \E r \in {"data", "eof", "err"} :
             IF r = "data"
             THEN /\ rlast' = Obs("read", pre, "real", "data", 1, FALSE)
                  /\ UNCHANGED <<rpc, rOrig>>
             ELSE /\ rOrig' = r
                  /\ rlast' = Obs("read", pre, "real", "pending", 0, TRUE)
                  /\ rpc' = "read_recv"
        /\ UNCHANGED outPipe
  /\ UNCHANGED <<cpc, chq, recvd, inPipe, nWritten, writerVars, rDst, ptyVars,
                 childVars>>
  /\ ReadFrame

\* `_ => res`: no reader arrived, the result of the first read is returned
\* (variant: end of file is reported whatever the first read returned)
ReadFallback_Eof(res) == "eof"
ReadFallback(res) == res

\* PtyReader::read: self.rx.recv() returned
PtyReadRecv ==
  /\ rpc = "read_recv"
  /\ rpc' = "idle"
  /\ rOrig' = "eof"
  /\ \/ /\ HasValue("stdout_tx")
        /\ RecvValue("stdout_tx")
        /\ rDst' = "real"
        /\ \E r \in {"data", "eof", "err"} :
             rlast' = Obs("read", rlast.pre, rlast.tgt \o "+real", r, 0, TRUE)
     \/ /\ Disconnected("stdout_tx")
        /\ UNCHANGED <<chq, recvd, rDst>>
        /\ rlast' = Obs("read", rlast.pre, rlast.tgt, ReadFallback(rOrig), 0, TRUE)
  /\ UNCHANGED <<cpc, outPipe, inPipe, nWritten, writerVars, ptyVars, childVars>>
  /\ ReadFrame

\* ------------------------------------------------------------ WrappedSshPty
\* WrappedSshPtyInner::check_connected finds the real PTY on the channel
Promotes == ptyState = "Connecting" /\ HasValue("pty_tx")

\* reader: reader.take() moves the unclaimed reader into Connected
\* (variant: Connected starts without a reader)
CarryReader_Dropped(r) == FALSE
CarryReader(r) == r

\* SshPty::resize on a real PTY of size cur: the new size is stored when the
\* request went through, the old one is kept when it failed
RealResize(cur, s, rok) == IF rok THEN s ELSE cur
\* SshPty::get_size: the stored size
RealGetSize(cur) == cur

\* WrappedSshPtyInner::check_connected with the shared geometry holding s;
\* rok is the outcome of the real PTY's resize
CheckConnected(s, rok) ==
  IF Promotes
  THEN /\ RecvValue("pty_tx")
       /\ realSize' = RealResize(realSize, s, rok)
       /\ ptyState' = "Connected"
       /\ readerHeld' = CarryReader(readerHeld)
  ELSE UNCHANGED <<chq, recvd, realSize, ptyState, readerHeld>>

\* its result: Ok(()) or the resize's error
CheckResult(rok) == IF Promotes THEN rok ELSE TRUE

PtyGuard == paneUp /\ cpc = "idle" /\ rxOpen["pty_tx"]

\* WrappedSshPty::resize
PtyResize ==
  /\ PtyGuard
  /\ \E new \in Sizes, rok \in BOOLEAN :
       IF ptyState = "Connecting"
       THEN /\ size' = new
            /\ latched' = IF CheckResult(rok) THEN new ELSE 0
            /\ CheckConnected(new, rok)
            /\ last' = PtyObs("resize", "Connecting", ptyState',
                              IF CheckResult(rok) THEN "ok" ELSE "err", new, TRUE,
                              IF Promotes THEN new ELSE 0)
       ELSE /\ realSize' = RealResize(realSize, new, rok)
            /\ latched' = 0
            /\ last' = Obs("resize", "Connected", "Connected",
                           IF rok THEN "ok" ELSE "err", new, FALSE)
            /\ UNCHANGED <<size, chq, recvd, ptyState, readerHeld>>
  /\ UNCHANGED <<cpc, outPipe, inPipe, nWritten, writerVars, readerVars, cloneLog,
                 childVars>>
  /\ MainFrame

\* WrappedSshPty::get_size
PtyGetSize ==
  /\ PtyGuard
  /\ IF ptyState = "Connecting"
     THEN \E rok \in BOOLEAN :
            /\ CheckConnected(size, rok)
            /\ last' = PtyObs("get_size", "Connecting", ptyState',
                              IF CheckResult(rok) THEN "ok" ELSE "err", size, TRUE,
                              IF Promotes THEN size ELSE 0)
     ELSE /\ last' = Obs("get_size", "Connected", "Connected", "ok",
                         RealGetSize(realSize), FALSE)
          /\ UNCHANGED <<chq, recvd, realSize, ptyState, readerHeld>>
  /\ UNCHANGED <<cpc, outPipe, inPipe, nWritten, writerVars, readerVars, size,
                 latched, cloneLog, childVars>>
  /\ MainFrame

\* WrappedSshPty::try_clone_reader
PtyTryCloneReader ==
  /\ PtyGuard
  /\ Len(cloneLog) < MaxClones
  /\ \E rok \in BOOLEAN :
       LET res == IF ~CheckResult(rok) THEN "err_resize"
                  ELSE IF readerHeld THEN "ok" ELSE "already_taken"
       IN /\ IF Promotes
             THEN /\ RecvValue("pty_tx")
                  /\ realSize' = RealResize(realSize, size, rok)
                  /\ ptyState' = "Connected"
             ELSE UNCHANGED <<chq, recvd, realSize, ptyState>>
          /\ readerHeld' = IF res = "ok" THEN FALSE ELSE CarryReader(readerHeld)
          /\ rpc' = IF res = "ok" THEN "idle" ELSE rpc
          /\ cloneLog' = Append(cloneLog, res)
          /\ last' = PtyObs("clone_reader", ptyState, ptyState', res, 0,
                            ptyState = "Connecting",
                            IF Promotes THEN size ELSE 0)
  /\ UNCHANGED <<cpc, outPipe, inPipe, nWritten, writerVars, rDst, rOrig,
                 size, latched, childVars>>
  /\ MainFrame

\* WrappedSshPty::process_group_leader
PtyProcessGroupLeader ==
  /\ PtyGuard
  /\ Promotes
  /\ \E rok \in BOOLEAN : CheckConnected(size, rok)
  /\ last' = PtyObs("process_group_leader", "Connecting", "Connected", "none", 0,
                    TRUE, size)
  /\ UNCHANGED <<cpc, outPipe, inPipe, nWritten, writerVars, readerVars, size,
                 latched, cloneLog, childVars>>
  /\ MainFrame

\* ---------------------------------------------------------- WrappedSshChild
ChildGuard == paneUp /\ cpc = "idle" /\ rxOpen["child_tx"]

\* the status cached when a channel reports an error
\* (variant: exit code 0)
AbnormalExit_Success == ErrorExitCode - 1
AbnormalExit == ErrorExitCode

\* WrappedSshChild::try_wait
ChildTryWait ==
  /\ ChildGuard
  /\ IF exited # NoStatus
     THEN /\ last' = Obs("try_wait", "cached", "", "some", exited, FALSE)
          /\ UNCHANGED <<chq, recvd, childVars>>
     ELSE IF ~chStatus
     THEN \* check_connected, then status is looked at
          CASE HasValue("child_tx") ->
                 /\ RecvValue("child_tx")
                 /\ chStatus' = TRUE
                 /\ statusCh' = "pending"
                 /\ last' = Obs("try_wait", "fresh", "rx", "none", NoStatus, TRUE)
                 /\ UNCHANGED <<exited, statusVal>>
            [] Disconnected("child_tx") ->
                 /\ exited' = AbnormalExit
                 /\ last' = Obs("try_wait", "fresh", "rx_closed", "none", NoStatus, TRUE)
                 /\ UNCHANGED <<chq, recvd, chStatus, statusCh, statusVal>>
            [] OTHER ->
                 /\ last' = Obs("try_wait", "fresh", "rx_empty", "none", NoStatus, TRUE)
                 /\ UNCHANGED <<chq, recvd, childVars>>
     ELSE CASE statusCh = "full" ->
                 /\ exited' = statusVal
                 /\ statusCh' = "drained"
                 /\ last' = Obs("try_wait", "fresh", "status", "some", statusVal, TRUE)
                 /\ UNCHANGED <<chq, recvd, chStatus, statusVal>>
            [] statusCh = "closed" ->
                 /\ exited' = AbnormalExit
                 /\ last' = Obs("try_wait", "fresh", "status_closed", "some",
                                AbnormalExit, TRUE)
                 /\ UNCHANGED <<chq, recvd, chStatus, statusCh, statusVal>>
            [] OTHER ->
                 /\ last' = Obs("try_wait", "fresh", "status_empty", "none", NoStatus, TRUE)
                 /\ UNCHANGED <<chq, recvd, childVars>>
  /\ UNCHANGED <<cpc, outPipe, inPipe, nWritten, writerVars, readerVars, ptyVars>>
  /\ MainFrame

\* WrappedSshChild::wait, up to its first blocking receive
ChildWait ==
  /\ ChildGuard
  /\ IF exited # NoStatus
     THEN /\ last' = Obs("wait", "cached", "", "some", exited, FALSE)
          /\ cpc' = "idle"
     ELSE /\ last' = Obs("wait", "fresh", "", "pending", NoStatus, FALSE)
          /\ cpc' = IF chStatus THEN "wait_status" ELSE "wait_rx"
  /\ UNCHANGED <<chq, recvd, outPipe, inPipe, nWritten, writerVars, readerVars,
                 ptyVars, childVars>>
  /\ MainFrame

\* WrappedSshChild::wait: self.rx.recv() returned
ChildWaitRx ==
  /\ cpc = "wait_rx"
  /\ \/ /\ HasValue("child_tx")
        /\ RecvValue("child_tx")
        /\ chStatus' = TRUE
        /\ statusCh' = "pending"
        /\ cpc' = "wait_status"
        /\ last' = Obs("wait", "fresh", "rx", "pending", NoStatus, TRUE)
        /\ UNCHANGED <<exited, statusVal>>
     \/ /\ Disconnected("child_tx")
        /\ exited' = AbnormalExit
        /\ cpc' = "idle"
        /\ last' = Obs("wait", "fresh", "rx_closed", "some", AbnormalExit, TRUE)
        /\ UNCHANGED <<chq, recvd, chStatus, statusCh, statusVal>>
  /\ UNCHANGED <<outPipe, inPipe, nWritten, writerVars, readerVars, ptyVars>>
  /\ MainFrame

\* WrappedSshChild::wait: rx.recv() on the status channel returned
ChildWaitStatus ==
  /\ cpc = "wait_status"
  /\ cpc' = "idle"
  /\ \/ /\ statusCh = "full"
        /\ exited' = statusVal
        /\ statusCh' = "drained"
        /\ last' = Obs("wait", "fresh", "status", "some", statusVal, TRUE)
     \/ /\ statusCh = "closed"
        /\ exited' = AbnormalExit
        /\ statusCh' = statusCh
        /\ last' = Obs("wait", "fresh", "status_closed", "some", AbnormalExit, TRUE)
  /\ UNCHANGED <<chq, recvd, chStatus, statusVal, outPipe, inPipe, nWritten,
                 writerVars, readerVars, ptyVars>>
  /\ MainFrame

\* The task spawned into the main thread: c.async_wait().await, then
\* tx.send(status) (or the sender is dropped when async_wait failed)
ChildTask ==
  /\ statusCh = "pending"
  /\ \E r \in RealExitCodes \cup {NoStatus} :
       IF r = NoStatus
       THEN /\ statusCh' = "closed" /\ statusVal' = statusVal
       ELSE /\ statusCh' = "full" /\ statusVal' = r
  /\ UNCHANGED <<cpc, chq, recvd, chStatus, exited, outPipe, inPipe, nWritten,
                 writerVars, readerVars, ptyVars>>
  /\ WrapFrame /\ KeepLast /\ KeepRLast

\* ------------------------------------------------------ PasswordPromptHost
\* Characters: "a" and "b" are one column wide, "W" stands for a character two
\* columns wide; "K" stands for the placeholder glyph (a key, two columns).
HlAlphabet == {"a", "b", "W"}
Placeholder == "K"
Width(ch) == IF ch \in {"W", "K"} THEN 2 ELSE 1

\* unicode_column_width(s): the columns the string takes
RECURSIVE ColumnWidth(_)
ColumnWidth(line) ==
  IF line = <<>> THEN 0 ELSE Width(Head(line)) + ColumnWidth(Tail(line))

\* OutputElement::Text(s)
Text(str) == [text |-> str]

\* PasswordPromptHost::highlight_line
HighlightLine(echo, line, cursor_position) ==
  IF echo
  THEN [tag |-> "out", output |-> << Text(line) >>, cursor |-> cursor_position]
  ELSE LET grapheme_count == ColumnWidth(line) IN
       [tag |-> "out",
        output |-> [i \in 1..grapheme_count |-> Text(<< Placeholder >>)],
        cursor |-> ColumnWidth(<< Placeholder >>) * cursor_position]

\* lines of at most MaxLine characters
RECURSIVE LinesUpTo(_)
LinesUpTo(n) ==
  IF n = 0 THEN { <<>> }
  ELSE LET shorter == LinesUpTo(n - 1) IN
       shorter \cup { Append(l, ch) : l \in shorter, ch \in HlAlphabet }

\* the calls the line editor may make: any line, the cursor after any of its
\* characters
HlInputs ==
  { [tag |-> "call", echo |-> e, line |-> l, cursor |-> c] :
      e \in BOOLEAN, l \in LinesUpTo(MaxLine), c \in 0..MaxLine }

InitHighlight ==
  /\ InitBridge({ << >> })
  /\ hlIn \in { i \in HlInputs : i.cursor <= Len(i.line) }
  /\ hlOut = NoHl

Highlight ==
  /\ hlIn # NoHl /\ hlOut = NoHl
  /\ hlOut' = HighlightLine(hlIn.echo, hlIn.line, hlIn.cursor)
  /\ UNCHANGED <<sessVars, domVars, cpc, chanVars, pipeVars, writerVars, readerVars,
                 ptyVars, childVars, workerVars, last, rlast, hlIn, shimVars>>

\* ------------------------------------------------------------------- Next
Caller ==
  \/ SpawnBegin \/ SpawnPane \/ SpawnDirect \/ SplitBegin \/ SplitDirect
  \/ DropPane \/ DropReader
  \/ PtyWrite \/ PtyFlush \/ PtyFlushRecv
  \/ PtyRead \/ PtyReadRecv
  \/ PtyResize \/ PtyGetSize \/ PtyTryCloneReader \/ PtyProcessGroupLeader
  \/ ChildTryWait \/ ChildWait \/ ChildWaitRx \/ ChildWaitStatus \/ ChildTask

Next == SessionClose \/ Worker \/ Caller

\* The whole program: every thread with every operation.
Spec == Init /\ [][Next]_vars

\* The compositions below take the worker with one part of the caller each;
\* a part contains every action that writes the variables it is about.

\* The domain facade with the worker: spawn and split_pane sequences.
NextDomain ==
  \/ SessionClose \/ WorkerCore
  \/ SpawnBegin \/ SpawnPane \/ SpawnDirect \/ SplitBegin \/ SplitDirect \/ DropPane
SpecDomain == Init /\ [][NextDomain]_vars
\* The worker thread is scheduled: a step of connect_ssh_session or of the
\* thread's tail that can be taken is eventually taken.
SpecDomainLive == SpecDomain /\ WF_vars(WorkerCore)
\* Moreover the Session drops its sender once its events are out.
SpecWorkerLive == SpecDomainLive /\ WF_vars(SessionClose)

\* The first pane's writer and reader wrappers with the worker.
NextStreams ==
  \/ SessionClose \/ Worker
  \/ SpawnBegin \/ SpawnPane \/ SpawnDirect \/ DropPane \/ DropReader
  \/ PtyWrite \/ PtyFlush \/ PtyFlushRecv \/ PtyRead \/ PtyReadRecv
  \/ PtyTryCloneReader
SpecStreams == InitWrap /\ [][NextStreams]_vars

\* The first pane's PTY handle with the worker.
NextPty ==
  \/ SessionClose \/ WorkerCore
  \/ SpawnBegin \/ SpawnPane \/ SpawnDirect \/ DropPane
  \/ PtyResize \/ PtyGetSize \/ PtyTryCloneReader \/ PtyProcessGroupLeader
SpecPty == InitWrap /\ [][NextPty]_vars

\* The first pane's child handle with the worker.
NextChild ==
  \/ SessionClose \/ WorkerCore
  \/ SpawnBegin \/ SpawnPane \/ SpawnDirect \/ DropPane
  \/ ChildTryWait \/ ChildWait \/ ChildWaitRx \/ ChildWaitStatus \/ ChildTask
SpecChild == InitWrap /\ [][NextChild]_vars

\* The prompt host on its own: one highlight_line call per run.
\* The line editor's prompts with poll_input taken statement by statement,
\* the caller resizing and typing meanwhile. The rest of the worker runs
\* between two poll_input calls.
WorkerOutsidePoll == ppc = "out" /\ WorkerCore
NextPoll ==
  \/ SessionClose \/ WorkerOutsidePoll
  \/ P_Start \/ P_Deadline \/ P_Read \/ P_Resized
  \/ SpawnBegin \/ SpawnPane \/ SpawnDirect
  \/ PtyResize \/ PtyWrite
SpecPoll == InitWrap /\ [][NextPoll]_vars
\* The worker thread is scheduled while it is inside poll_input or about to
\* call it; the line editor need not ever return.
SpecPollLive == SpecPoll /\ WF_vars(PollInput)

SpecHighlight == InitHighlight /\ [][Highlight]_vars

\* The handoff: runs in which the Session needs no dialogue, with every
\* receive site of the first pane's wrappers (check_connected through
\* get_size and try_clone_reader).
HandoffStreams == { << EvAuthenticated >>, << >> }
InitHandoff == InitWith(HandoffStreams)
NextHandoff ==
  \/ SessionClose \/ W_StreamEnd \/ W_Authenticated \/ W_RequestPty
  \/ W_SendWriter \/ W_SendReader \/ W_SendPty \/ W_SendChild \/ W_ThreadTail
  \/ SpawnBegin \/ SpawnPane \/ SpawnDirect \/ DropPane
  \/ PtyWrite \/ PtyFlush \/ PtyFlushRecv \/ PtyRead \/ PtyReadRecv
  \/ PtyGetSize \/ PtyTryCloneReader
  \/ ChildTryWait \/ ChildWait \/ ChildWaitRx \/ ChildWaitStatus \/ ChildTask
SpecHandoff == InitHandoff /\ [][NextHandoff]_vars

\* ==================================================================== claims
IsPrefix(s, t) == Len(s) <= Len(t) /\ \A i \in 1..Len(s) : s[i] = t[i]
Returned == wpc \in {"tail", "done"}

\* C1: when connect_ssh_session has consumed the events up to Authenticated
\* and request_pty succeeded, the sends happen in the order stdin_tx,
\* stdout_tx, pty_tx, child_tx, one value per channel, and once the function
\* has returned with every send accepted all four were made and the result is
\* Ok(()); conversely four deliveries mean it returned Ok(()).
C1_DeliveryOrder ==
  /\ IsPrefix(sendLog, SendOrder)
  /\ \A c \in Chans : chq[c] + recvd[c] = (IF Sent(c) THEN 1 ELSE 0)
  /\ sendLog # <<>> => ptyReq = "ok" /\ stream[evIdx].kind = "Authenticated"
  /\ (ptyReq = "ok" /\ Returned /\ wres \notin {"err_send", "err_clone"})
        => sendLog = SendOrder /\ wres = "ok"
  /\ sendLog = SendOrder => Returned /\ wres = "ok"

\* the end-to-end stream was consumed, both prompts answered, and the worker
\* finished after four deliveries
C1_Witness ==
  /\ stream = StreamE2E /\ evIdx = Len(StreamE2E)
  /\ ansCount = <<0, 1, 1, 0>>
  /\ sendLog = SendOrder /\ wres = "ok" /\ wpc = "done"

\* C2: the first spawn's path to its return is never blocked by the worker:
\* whenever the caller is at the start of spawn or between the bootstrap and
\* the construction of the pane, its next step is enabled, whatever the worker
\* has done.
C2_SpawnNeverWaits ==
  /\ (cpc = "idle" /\ nSpawn < MaxSpawns) => ENABLED SpawnBegin
  /\ cpc = "spawn_pane" => ENABLED SpawnPane

\* the first spawn returned its pane while the worker had consumed no event
C2_Witness ==
  /\ paneUp /\ cpc = "idle" /\ nSpawn = 1
  /\ wpc = "recv" /\ evIdx = 0

\* C3: at most one worker and one set of placeholder pipes are ever created;
\* the events are gone after the first spawn, which alone reaches the
\* bootstrap; later spawns and every split_pane go to request_pty directly.
C3_SingleWorker ==
  /\ nWorkers <= 1 /\ nPipes = nWorkers
  /\ (nWorkers = 0) = (wpc = "idle")
  /\ events => nSpawn = 0 /\ nWorkers = 0
  /\ nSpawn >= 1 => ~events
  /\ cpc = "spawn_pane" => nSpawn = 1 /\ nWorkers = 1
  /\ cpc = "spawn_direct" => nSpawn >= 2
  /\ nDirect + (IF cpc \in {"spawn_direct", "split_direct"} THEN 1 ELSE 0)
       <= nSplit + (IF nSpawn >= 1 THEN nSpawn - 1 ELSE 0)

\* two spawns and a split were made: one worker, two direct requests
C3_Witness ==
  /\ nSpawn = 2 /\ nSplit = 1 /\ cpc = "idle"
  /\ nWorkers = 1 /\ nPipes = 1 /\ nDirect = 2

\* C4: on each delivery channel at most one receive returns a value, and once
\* it has, the channel is empty for every later receive attempt.
C4_AtMostOnce ==
  \A c \in Chans :
    /\ recvd[c] <= 1
    /\ recvd[c] = 1 => chq[c] = 0
    /\ chq[c] + recvd[c] <= 1

\* every channel delivered its value and the writer, already switched, made
\* another try_recv
C4_Witness ==
  /\ \A c \in Chans : recvd[c] = 1
  /\ last.op = "write" /\ last.pre = "switched"

\* C5 as stated: once the real transport was sent on the wrapper's channel,
\* every read, write and flush that starts afterwards goes to the real
\* transport only.
C5_RealOnceSent ==
  /\ (last.op \in {"write", "flush"} /\ last.pre \in {"sent", "switched"})
       => last.tgt = "real"
  /\ (rlast.op = "read" /\ rlast.pre \in {"sent", "switched"})
       => rlast.tgt = "real"

\* C5: once the wrapper has received the real transport it keeps it, and every
\* read, write and flush that starts afterwards goes to the real transport
\* only; a write that starts after the send picks the real writer up first.
C5_RealOnceReceived ==
  /\ [] /\ (last.op \in {"write", "flush"} /\ last.pre = "switched")
              => last.tgt = "real"
        /\ (rlast.op = "read" /\ rlast.pre = "switched") => rlast.tgt = "real"
        /\ (last.op = "write" /\ last.pre = "sent") => last.tgt = "real"
        /\ wDst = "real" => recvd["stdin_tx"] = 1
        /\ rDst = "real" => recvd["stdout_tx"] = 1
  /\ [][ /\ wDst = "real" => wDst' = "real"
         /\ rDst = "real" => rDst' = "real" ]_vars

\* a byte went to the placeholder before the handoff, and the first write
\* after the send went to the real writer
C5_Witness ==
  /\ nWritten = 1
  /\ last.op = "write" /\ last.pre = "sent" /\ last.tgt = "real"

\* C6: get_size returns the size of the latest resize accepted while
\* Connecting, before promotion and after it (no later resize), and promotion
\* passes the shared geometry to the real PTY, which has that size once the
\* handle is Connected.
C6_ResizeLatched ==
  /\ (last.op = "get_size" /\ last.res = "ok" /\ latched # 0) => last.val = latched
  /\ last.arg # 0 => last.arg = size /\ last.tgt = "Connected"
  /\ (ptyState = "Connected" /\ latched # 0) => realSize = latched

\* C7: the first try_clone_reader call returns the reader and every later call
\* fails with "reader already taken".
C7_ReaderOnce ==
  \A i \in 1..Len(cloneLog) :
    cloneLog[i] = (IF i = 1 THEN "ok" ELSE "already_taken")

\* C8: each answer to a HostVerify event is true exactly when the editor
\* returned one of "y", "Y", "yes", "YES" (false for any other line, the empty
\* line and no line); an event is answered at most once, and exactly once
\* whenever the editor returned.
C8_HostVerifyAnswer ==
  /\ wlast.kind = "verify" =>
       /\ stream[wlast.ev].kind = "HostVerify"
       /\ wlast.val = << (wlast.line[1].tag = "line"
                          /\ wlast.line[1].line \in {"y", "Y", "yes", "YES"}) >>
       /\ ansCount[wlast.ev] = 1
  /\ \A i \in 1..Len(ansCount) :
       stream[i].kind = "HostVerify" =>
         /\ ansCount[i] <= 1
         /\ i < evIdx => ansCount[i] = 1
         /\ ansCount[i] = 0 =>
              /\ i = evIdx
              /\ wpc \in {"hv_prompt", "hv_edit"} \/ (Returned /\ wres = "err_io")

\* the editor returned "YES" and true was answered
C8_Witness ==
  /\ wlast.kind = "verify"
  /\ wlast.line = << EdLine("YES") >> /\ wlast.val = << TRUE >>

\* C9: auth.answer is invoked with one answer per prompt, the lines the editor
\* returned in prompt order, at most once per event; when the editor returns no
\* line the worker returns "Authentication was cancelled" at that prompt, with
\* no later prompt, no later event and no answer for the event.
C9_AuthenticateAnswers ==
  /\ wlast.kind = "auth" =>
       /\ stream[wlast.ev].kind = "Authenticate"
       /\ Len(wlast.val) = Len(stream[wlast.ev].prompts)
       /\ wlast.val = wlast.line
       /\ ansCount[wlast.ev] = 1
  /\ \A i \in 1..Len(ansCount) :
       stream[i].kind = "Authenticate" =>
         /\ ansCount[i] <= 1
         /\ i < evIdx => ansCount[i] = 1
  /\ wres = "err_cancelled" =>
       /\ Returned
       /\ stream[evIdx].kind = "Authenticate"
       /\ Len(ansCount) = evIdx /\ ansCount[evIdx] = 0
       /\ promptIdx = Len(lineLog) + 1
       /\ promptIdx <= Len(stream[evIdx].prompts)
       /\ sendLog = <<>>

\* two prompts were answered with different lines and the answer was sent
C9_Witness ==
  /\ wlast.kind = "auth"
  /\ wlast.val = << "other", "secret" >>

\* C10: while no child was sent, wait() stays blocked as long as the worker
\* holds child_tx, and returns exit code 1 once it is closed; the status in
\* `exited` never changes, and a wait() or try_wait() that finds it returns
\* it and touches no channel.
C10_WaitNeverSent ==
  /\ [] /\ (cpc = "wait_rx" /\ ~Sent("child_tx") /\ TxOpen) => ~ENABLED ChildWaitRx
        /\ (last.op = "wait" /\ last.tgt = "rx_closed") =>
             /\ ~Sent("child_tx") /\ ~TxOpen
             /\ last.res = "some" /\ last.val = 1 /\ exited = 1
             /\ cpc = "idle"
        /\ (~Sent("child_tx") /\ exited # NoStatus) => exited = 1
        /\ (last.op \in {"wait", "try_wait"} /\ last.pre = "cached") =>
             /\ last.res = "some" /\ last.val = exited /\ exited # NoStatus
  /\ [][ /\ exited # NoStatus => exited' = exited
         /\ (last'.op \in {"wait", "try_wait"} /\ last'.pre = "cached" /\ last' # last)
              => UNCHANGED <<chq, recvd, statusCh, cpc>> ]_vars

\* wait() blocked on the child channel and returned exit code 1 when the
\* worker ended without sending a child
C10_Witness ==
  /\ last.op = "wait" /\ last.tgt = "rx_closed" /\ last.val = 1
  /\ ~Sent("child_tx") /\ wpc = "done"

\* C11: get_size on the PTY handle always returns a size, also in the call
\* that promotes the handle; and while the worker holds its ends, an operation
\* that ran on a placeholder only did not fail.
C11_GetSizeSucceeds ==
  /\ last.op = "get_size" => last.res = "ok"
  /\ (last.op \in {"write", "flush"} /\ last.tgt = "ph" /\ TxOpen
        /\ last.res # "pending") => last.res = "ok"
  /\ (rlast.op = "read" /\ rlast.tgt = "ph" /\ StdoutWriteOpen
        /\ rlast.res # "pending") => rlast.res = "data"

\* C12: once request_pty has failed the worker has rendered the failure and
\* left the loop, nothing is or will be sent on any delivery channel, and the
\* PTY handle is and stays Connecting whatever is called on it.
C12_RequestFailed ==
  /\ [] (ptyReq = "err" =>
           /\ stream[evIdx].kind = "Authenticated"
           /\ Returned /\ wres \in {"ok", "err_io"}
           /\ (wpc = "tail" /\ wres = "ok") => outBuf >= 1
           /\ sendLog = <<>>
           /\ \A c \in Chans : chq[c] = 0 /\ recvd[c] = 0
           /\ ptyState = "Connecting" /\ realSize = 0)
  /\ [][ptyReq = "err" => ptyReq' = "err"]_vars

\* request_pty failed, the worker is gone, and a get_size after that left the
\* handle Connecting
C12_Witness ==
  /\ ptyReq = "err" /\ wpc = "done" /\ wres = "ok"
  /\ last.op = "get_size" /\ last.tgt = "Connecting" /\ last.res = "ok"

\* C13: when the event stream was closed before an Authenticated event was
\* consumed, connect_ssh_session has returned an error, not Ok(()).
C13_ExhaustionFails ==
  (evClosed /\ Returned /\ (\A i \in 1..evIdx : stream[i].kind # "Authenticated"))
    => wres \notin {"ok", "none"}

\* C14: with echo disabled a line of N characters is rendered as exactly N
\* placeholder glyphs and none of its characters, and the cursor at the end of
\* the line is returned as N times the placeholder's width; with echo enabled
\* the line and the cursor position come back unchanged.
C14_Masking ==
  hlOut # NoHl =>
    IF hlIn.echo
    THEN hlOut.output = << Text(hlIn.line) >> /\ hlOut.cursor = hlIn.cursor
    ELSE /\ Len(hlOut.output) = Len(hlIn.line)
         /\ \A i \in 1..Len(hlOut.output) :
              /\ hlOut.output[i] = Text(<< Placeholder >>)
              /\ \A j \in 1..Len(hlOut.output[i].text) :
                   hlOut.output[i].text[j] \notin HlAlphabet
         /\ hlIn.cursor = Len(hlIn.line)
              => hlOut.cursor = Len(hlIn.line) * Width(Placeholder)

\* C15: across the handoff every byte PtyWriter::write accepted on the
\* placeholder has been read by the worker's poll_input: once the worker has
\* made the four deliveries and closed stdin_read, none is left in the
\* placeholder pipe.
C15_NoLostBytes ==
  /\ inPipe <= nWritten
  /\ (sendLog = SendOrder /\ ~TxOpen) => inPipe = 0

\* C16: a try_wait that finds the child channel or the status channel closed
\* without a value returns Some(exit code 1) in that call and caches it.
C16_TryWaitAbnormal ==
  (last.op = "try_wait" /\ last.tgt \in {"rx_closed", "status_closed"}) =>
     /\ last.res = "some" /\ last.val = ErrorExitCode
     /\ exited = ErrorExitCode

\* C17: a flush that succeeds on the current writer receives nothing; one
\* that fails blocks in a single receive on the writer channel; a writer that
\* arrives becomes the current writer and the result of one flush on it is
\* returned; a closed channel leaves the writer as it was and returns the
\* first failure.
C17_Flush ==
  /\ [] ((cpc = "flush_recv" /\ chq["stdin_tx"] = 0 /\ TxOpen)
            => ~ENABLED PtyFlushRecv)
  /\ [][ /\ (cpc = "idle" /\ last'.op = "flush") =>
              /\ chq' = chq /\ recvd' = recvd /\ wDst' = wDst
              /\ last'.tgt = wDst
              /\ \/ last'.res = "ok" /\ cpc' = "idle"
                 \/ last'.res = "pending" /\ cpc' = "flush_recv"
         /\ (cpc = "flush_recv" /\ cpc' # cpc) =>
              /\ cpc' = "idle" /\ last'.op = "flush"
              /\ \/ /\ recvd' = [recvd EXCEPT !["stdin_tx"] = @ + 1]
                    /\ chq' = [chq EXCEPT !["stdin_tx"] = @ - 1]
                    /\ wDst' = "real"
                    /\ last'.tgt = last.tgt \o "+real"
                    /\ last'.res \in {"ok", "err"}
                 \/ /\ chq["stdin_tx"] = 0 /\ ~TxOpen
                    /\ chq' = chq /\ recvd' = recvd /\ wDst' = wDst
                    /\ last'.tgt = last.tgt
                    /\ last'.res = "err" ]_vars

\* the flush on the placeholder failed, the real writer arrived and the flush
\* on it succeeded
C17_Witness ==
  /\ last.op = "flush" /\ last.tgt = "ph+real" /\ last.res = "ok"
  /\ wDst = "real" /\ cpc = "idle"

\* C18: a read that returns data from the current reader receives nothing; on
\* 0 bytes or an error the read blocks on the reader channel; a reader that
\* arrives becomes the current reader and the result of one read on it is
\* returned; a closed channel returns what the first read returned.
C18_Read ==
  /\ [] ((rpc = "read_recv" /\ chq["stdout_tx"] = 0 /\ TxOpen)
            => ~ENABLED PtyReadRecv)
  /\ [][ /\ (rpc = "idle" /\ rlast'.op = "read") =>
              /\ chq' = chq /\ recvd' = recvd /\ rDst' = rDst
              /\ rlast'.tgt = rDst
              /\ \/ rlast'.res = "data" /\ rlast'.val > 0 /\ rpc' = "idle"
                 \/ rlast'.res = "pending" /\ rpc' = "read_recv"
                      /\ rOrig' \in {"eof", "err"}
         /\ (rpc = "read_recv" /\ rpc' # rpc) =>
              /\ rpc' = "idle" /\ rlast'.op = "read"
              /\ \/ /\ recvd' = [recvd EXCEPT !["stdout_tx"] = @ + 1]
                    /\ chq' = [chq EXCEPT !["stdout_tx"] = @ - 1]
                    /\ rDst' = "real"
                    /\ rlast'.tgt = rlast.tgt \o "+real"
                    /\ rlast'.res \in {"data", "eof", "err"}
                 \/ /\ chq["stdout_tx"] = 0 /\ ~TxOpen
                    /\ chq' = chq /\ recvd' = recvd /\ rDst' = rDst
                    /\ rlast'.tgt = rlast.tgt
                    /\ rlast'.res = rOrig ]_vars

\* the placeholder reached end of file, the real reader arrived and the read
\* on it returned data
C18_Witness ==
  /\ rlast.op = "read" /\ rlast.tgt = "ph+real" /\ rlast.res = "data"
  /\ rDst = "real" /\ rpc = "idle"

\* some Error event was consumed
ErrorSeen == \E i \in 1..evIdx : stream[i].kind = "Error"

\* C19: consuming an Error event writes one output line and returns to the
\* head of the loop with nothing else changed (the only other outcome is the
\* failure of that write); the next event of the stream is then consumed, an
\* Authenticated event that follows is taken to the PTY request, and a
\* request that succeeds is followed by the four deliveries in order unless a
\* receiver is gone.
C19_ErrorContinues ==
  /\ [][ (HasEvent("Error") /\ evIdx' # evIdx) =>
            \/ /\ outBuf' = outBuf + 1 /\ wpc' = "recv" /\ wres' = wres
               /\ sendLog' = sendLog /\ ptyReq' = ptyReq
            \/ /\ ~StdoutReadOpen
               /\ outBuf' = outBuf /\ wpc' = "tail" /\ wres' = "err_io" ]_vars
  /\ \A i \in 1..Len(StreamE2E) :
       (ErrorSeen /\ wpc = "recv" /\ evIdx = i /\ i < Len(stream)) ~> (evIdx > i)
  /\ (ErrorSeen /\ HasEvent("Authenticated")) ~> (ptyReq # "none")
  /\ (ErrorSeen /\ wpc = "send_stdin")
       ~> (sendLog = SendOrder \/ wres = "err_send")

\* the Error event was rendered, the Authenticated event behind it was
\* consumed and the four values were sent
C19_Witness ==
  /\ stream = << EvError, EvAuthenticated >> /\ evIdx = 2
  /\ ptyReq = "ok" /\ sendLog = SendOrder /\ wres = "ok" /\ wpc = "done"
  /\ outPipe >= 1

\* C20: the events consumed are a prefix of the stream, taken one at a time
\* at the head of the loop; whenever the loop is back at its head every
\* HostVerify and Authenticate event consumed so far was answered once, the
\* last Authenticate after all its prompts were asked; an Authenticated event
\* is the last event consumed, whatever request_pty returns.
C20_EventOrder ==
  /\ [] ( /\ evIdx \in 0..Len(stream) /\ Len(ansCount) = evIdx
          /\ \A i \in 1..evIdx : ansCount[i] <= 1
          /\ wpc = "recv" =>
               /\ \A i \in 1..evIdx :
                    stream[i].kind \in {"HostVerify", "Authenticate"}
                      => ansCount[i] = 1
               /\ (evIdx >= 1 /\ stream[evIdx].kind = "Authenticate")
                    => Len(answers) = Len(stream[evIdx].prompts)
          /\ \A i \in 1..evIdx :
               stream[i].kind = "Authenticated" => i = evIdx /\ wpc # "recv" )
  /\ [][ evIdx' # evIdx => evIdx' = evIdx + 1 /\ wpc = "recv" ]_vars
  /\ [][ (evIdx >= 1 /\ stream[evIdx].kind = "Authenticated")
            => evIdx' = evIdx ]_vars

\* request_pty failed after the Authenticated event and the worker ended with
\* the event behind it still in the stream
C20_Witness ==
  /\ stream = << EvBanner(FALSE), EvAuth(2, <<>>), EvAuthenticated, EvBanner(TRUE) >>
  /\ evIdx = 3 /\ ansCount = <<0, 1, 0>>
  /\ ptyReq = "err" /\ wpc = "done"

\* C21: whenever try_clone_reader() returns a reader, the handle is Connected
\* when the call returns.
C21_ReaderOnlyConnected ==
  (last.op = "clone_reader" /\ last.res = "ok") => last.tgt = "Connected"

\* C22: once request_pty has failed, no read on the PtyReader wrapper returns
\* end of file or an error, and no write or flush on the PtyWriter wrapper
\* returns an error.
C22_BlocksForever ==
  ptyReq = "err" =>
    /\ rlast.op = "read" => rlast.res \notin {"eof", "err"}
    /\ last.op \in {"write", "flush"} => last.res # "err"

\* a change of the shared geometry to s made during the current prompt that
\* no poll_input call has surfaced
Unreported(s) == InPrompt /\ KnownHere /\ size = s /\ known.size # s

\* C23: while the prompt runs, a geometry changed to s and left there is
\* eventually carried by a Resized event.
C23_ResizeSurfaced ==
  \A s \in Sizes : Unreported(s) ~> ~Unreported(s)

\* C24: one worker at most is ever started; once started it reaches its
\* terminated state, and from then on it stays there, consumes no event and
\* no other worker is started.
C24_WorkerTerminates ==
  /\ [] (nWorkers <= 1 /\ ((nWorkers = 0) = (wpc = "idle")))
  /\ (wpc # "idle") ~> (wpc = "done")
  /\ [][ wpc = "done" =>
           wpc' = "done" /\ evIdx' = evIdx /\ nWorkers' = nWorkers ]_vars

\* the worker ended on a failed send, its events partly unconsumed, and a
\* second spawn was made after that
C24_Witness ==
  /\ wpc = "done" /\ wres = "err_send" /\ nWorkers = 1 /\ nSpawn = 2

\* C25: the channels on which a value was sent are a prefix of writer,
\* reader, PTY, child, each with exactly the one value sent on it; a send
\* that fails sends nothing, makes the orchestrator return an error, and no
\* send follows it.
C25_SentPrefix ==
  /\ [] ( /\ IsPrefix(sendLog, SendOrder)
          /\ \A c \in Chans : chq[c] + recvd[c] = (IF Sent(c) THEN 1 ELSE 0)
          /\ Sent("child_tx") => \A c \in Chans : Sent(c)
          /\ wres = "err_send" => Returned /\ Len(sendLog) < Len(SendOrder) )
  /\ [][ (wpc \in {"send_stdin", "send_stdout", "send_pty", "send_child"}
            /\ wpc' # wpc /\ sendLog' = sendLog)
           => wpc' = "tail" /\ wres' = "err_send" /\ chq' = chq ]_vars
  /\ [][ wres = "err_send" => sendLog' = sendLog /\ wres' = wres ]_vars

\* the writer was delivered, the reader's receiver was gone and the worker
\* ended without sending the PTY and the child
C25_Witness ==
  /\ sendLog = << "stdin_tx" >> /\ wres = "err_send" /\ wpc = "done"
  /\ ~rxOpen["stdout_tx"] /\ rxOpen["pty_tx"] /\ rxOpen["child_tx"]

\* bytes written to the placeholder output and not yet returned by a read
Unread == outBuf + outPipe

PtyOps == {"resize", "get_size", "clone_reader", "process_group_leader"}

\* C27: the handle's state changes only from Connecting to Connected, in an
\* operation whose check_connected takes the value off the PTY channel; the
\* reader not yet claimed is still held afterwards; this is so also when the
\* resize of the real PTY fails, the failure being the result of
\* check_connected (passed on by resize, get_size and try_clone_reader,
\* discarded by process_group_leader); a Connected handle stays Connected and
\* takes nothing more from the channel.
C27_Monotone ==
  /\ [][ ptyState' # ptyState =>
           /\ ptyState = "Connecting" /\ ptyState' = "Connected"
           /\ HasValue("pty_tx")
           /\ recvd' = [recvd EXCEPT !["pty_tx"] = @ + 1]
           /\ chq' = [chq EXCEPT !["pty_tx"] = @ - 1]
           /\ last'.op \in PtyOps /\ last'.polled
           /\ last'.pre = "Connecting" /\ last'.tgt = "Connected"
           /\ readerHeld' = (readerHeld /\ ~(last'.op = "clone_reader"
                                             /\ last'.res = "ok")) ]_vars
  /\ [][ ptyState = "Connected" =>
           /\ ptyState' = "Connected"
           /\ recvd'["pty_tx"] = recvd["pty_tx"]
           /\ (last'.op \in PtyOps /\ last' # last) => ~last'.polled ]_vars
  /\ [] ( (last.op \in PtyOps /\ last.pre = "Connecting"
             /\ last.res \in {"err", "err_resize"})
            => last.tgt = "Connected" /\ ptyState = "Connected" /\ last.arg # 0 )
  /\ [] ( ptyState = "Connected" => recvd["pty_tx"] = 1 )

\* the promotion was made by a get_size whose resize of the real PTY failed:
\* the call returned the error, the handle is Connected and still holds the
\* reader
C27_Witness ==
  /\ last.op = "get_size" /\ last.pre = "Connecting" /\ last.res = "err"
  /\ ptyState = "Connected" /\ readerHeld

====
